---------------------------- MODULE Spec2Model ----------------------------
(***************************************************************************)
(* Model of the Sublime REST client plugin (src/plugin.py): the worker     *)
(* thread HttpRequestThread, the command RestRequestCommand with its       *)
(* poller closure, the two renderers and the panel write command.          *)
(*                                                                         *)
(* Text is modelled character by character: a str is a sequence of         *)
(* one-character strings, so offsets and lengths are those of the code.    *)
(* Optional[T] is a sequence of length 0 (None) or 1.                      *)
(***************************************************************************)
EXTENDS Integers, Sequences, FiniteSets, TLC

THROBBER_WIDTH == 6
THROBBER_REFRESH_RATE == 100

\* Request cycles the command may start in one behaviour of Spec; a
\* behaviour of SpecOverlap may start one more, so that cycles overlap.
MaxCycles == 1
OverlapCycles == MaxCycles + 1

Cycles == 1..OverlapCycles

None == <<>>
Some(x) == <<x>>

-----------------------------------------------------------------------------
(* str helpers *)

Min(a, b) == IF a <= b THEN a ELSE b
Max(a, b) == IF a >= b THEN a ELSE b

SPACE == <<" ">>
NEWLINE == <<"\n">>
BLANK_LINE == <<"\n", "\n">>

\* ' ' * n
Spaces(n) == [i \in 1..n |-> " "]

\* sep.join(parts)
RECURSIVE Join(_, _)
Join(sep, parts) ==
    IF Len(parts) = 0 THEN <<>>
    ELSE IF Len(parts) = 1 THEN parts[1]
    ELSE parts[1] \o sep \o Join(sep, Tail(parts))

DIGITS == <<"0", "1", "2", "3", "4", "5", "6", "7", "8", "9">>

\* str(n) of a non-negative int, as the f-string formats response.status
RECURSIVE Str(_)
Str(n) == IF n < 10 THEN <<DIGITS[n + 1]>>
          ELSE Str(n \div 10) \o <<DIGITS[(n % 10) + 1]>>

StartsWith(s, prefix) ==
    /\ Len(prefix) <= Len(s)
    /\ SubSeq(s, 1, Len(prefix)) = prefix

-----------------------------------------------------------------------------
(* The collaborators that are not under src/: documents and the parser,    *)
(* the transport adapter's responses and errors.                           *)

GET == <<"G", "E", "T">>
URL_EXAMPLE == <<"h", "t", "t", "p", "s", ":", "/", "/", "e", "x", "a", "m", "p", "l", "e", ".", "t", "e", "s", "t", "/", "g", "e", "t">>
URL_LOCALHOST == <<"h", "t", "t", "p", ":", "/", "/", "l", "o", "c", "a", "l", "h", "o", "s", "t", ":", "9", "9", "9", "9">>

\* A document of the active view: an explicit method or none, a URL, and
\* whether the parser accepts it.
DocExplicitGet == [valid |-> TRUE, method |-> Some(GET), url |-> URL_EXAMPLE]
DocUrlOnly == [valid |-> TRUE, method |-> None, url |-> URL_LOCALHOST]
DocMalformed == [valid |-> FALSE, method |-> None, url |-> <<>>]
Documents == {DocExplicitGet, DocUrlOnly, DocMalformed}

\* window.active_view(): None, or a view holding a document
ActiveViews == {None} \cup {Some(d) : d \in Documents}

\* parser.parse raises on a document it cannot turn into a Request
ParseRaises(doc) == ~doc.valid

\* parser.parse(view): a document with no explicit method is a GET
\* (test_simple_get: "https://httpbin.org/get" renders as "GET https://...")
parse(doc) == [method |-> IF doc.method = None THEN GET ELSE doc.method[1],
               url |-> doc.url]

\* Response values the adapter may return: status, headers in insertion
\* order, body text.
R200 == [status |-> 200,
         headers |-> << <<<<"D", "a", "t", "e">>, <<"X">>>>,
                        <<<<"S", "e", "r", "v", "e", "r">>, <<"n", "g", "i", "n", "x">>>> >>,
         data |-> <<"{", "\"", "o", "k", "\"", ":", "t", "r", "u", "e", "}">>]
\* a status code that is not a member of http.HTTPStatus
R520 == [status |-> 520, headers |-> <<>>, data |-> <<>>]
Responses == {R200, R520}

\* Exceptions the adapter may raise (subclasses of Exception)
Exceptions == {"OSError"}

\* repr(exception) of an exception raised without arguments
repr(exc) == <<"O", "S", "E", "r", "r", "o", "r", "(", ")">>

\* traceback.format_exc() inside the except block: the header line, then
\* the exception line (the frame lines in between are left out)
format_exc(exc) ==
    <<"T", "r", "a", "c", "e", "b", "a", "c", "k", " ", "(", "m", "o", "s", "t", " ", "r", "e", "c", "e", "n", "t", " ", "c", "a", "l", "l", " ", "l", "a", "s", "t", ")", ":", "\n">>
    \o <<"O", "S", "E", "r", "r", "o", "r", "\n">>

\* HTTPStatus(status): raises ValueError unless status is a member
HTTPStatusRaises(status) == status \notin {200, 404}

\* HTTPStatus(status).phrase
phrase(status) == IF status = 200 THEN <<"O", "K">>
                  ELSE <<"N", "o", "t", " ", "F", "o", "u", "n", "d">>

-----------------------------------------------------------------------------
(* UpdateRestResponsePanelCommand.run and the texts the command builds *)

\* `region_start or 0`, `region_end or self.view.size()`: None and 0 are
\* both falsy
OrDefault(opt, default) == IF opt = None \/ opt[1] = 0 THEN default ELSE opt[1]

\* Variant of UpdateRestResponsePanel with `region_end or 0`: without a region the text is inserted at 0.
UpdateRestResponsePanel_EndDefaultsToZero(content, text, region_start, region_end) ==
    LET a == OrDefault(region_start, 0)
        b == OrDefault(region_end, 0)
        lo == Min(Min(a, b), Len(content))
        hi == Min(Max(a, b), Len(content))
    IN SubSeq(content, 1, lo) \o text \o SubSeq(content, hi + 1, Len(content))

\* view.replace(edit, Region(a, b), text) on a buffer holding `content`;
\* a Region is unordered and the buffer clips it to its extent
UpdateRestResponsePanel(content, text, region_start, region_end) ==
    LET a == OrDefault(region_start, 0)
        b == OrDefault(region_end, Len(content))
        lo == Min(Min(a, b), Len(content))
        hi == Min(Max(a, b), Len(content))
    IN SubSeq(content, 1, lo) \o text \o SubSeq(content, hi + 1, Len(content))

\* send_request: the initial frame
initial_output(req) ==
    Join(BLANK_LINE,
         << req.method \o SPACE \o req.url,
            <<"W", "a", "i", "t", "i", "n", "g", " ", "f", "o", "r", " ", "r", "e", "s", "p", "o", "n", "s", "e", " ", "[">>
               \o Spaces(THROBBER_WIDTH) \o <<"]">> >>)

\* Variant of throbber_end_of that takes len(output) itself for the end of the region.
throbber_end_at_len(output) == Len(output)

throbber_end_of(output) == Len(output) - 1
throbber_start_of(output) == throbber_end_of(output) - THROBBER_WIDTH

\* update_throbber: the text of one frame
throbber(position) ==
    Spaces(position) \o <<"=">> \o Spaces(THROBBER_WIDTH - 1 - position)

\* poll: position = position + step
NextPosition(position, step) == position + step

\* Variant of NextStep that turns back at THROBBER_WIDTH instead of THROBBER_WIDTH - 1.
NextStep_FlipsAtWidth(position, step) ==
    LET p == NextPosition(position, step)
    IN IF p = 0 THEN 1 ELSE IF p = THROBBER_WIDTH THEN -1 ELSE step

\* poll: the direction after the position has moved
NextStep(position, step) ==
    LET p == NextPosition(position, step)
    IN IF p = 0 THEN 1 ELSE IF p = THROBBER_WIDTH - 1 THEN -1 ELSE step

\* on_success: "\n".join(f"{header}: {value}" ...)
headers_text(resp) ==
    Join(NEWLINE, [i \in 1..Len(resp.headers) |->
                     resp.headers[i][1] \o <<":", " ">> \o resp.headers[i][2]])

\* on_success: the text written, given self.request at the time of the call
on_success_output(req, resp) ==
    Join(BLANK_LINE,
         << req.method \o SPACE \o req.url \o SPACE \o Str(resp.status)
               \o SPACE \o phrase(resp.status),
            headers_text(resp),
            resp.data >>)

\* on_error: the text written, given self.request at the time of the call
on_error_output(req, exception, trace) ==
    Join(BLANK_LINE,
         << <<"R", "E", "S", "T", " ", "C", "l", "i", "e", "n", "t", ":", " ", "E", "r", "r", "o", "r", " ", "o", "n", " ", "r", "e", "q", "u", "e", "s", "t", " ", "t", "o", " ">>
               \o req.method \o SPACE \o req.url,
            repr(exception),
            trace >>)

-----------------------------------------------------------------------------
VARIABLES
    \* RestRequestCommand (one instance per window, reused by every run)
    request,          \* self.request: None before the first parse
    panel_view,       \* self.panel_view exists
    panel,            \* the text of the output panel
    ui,               \* where the UI thread is: "idle", or inside run after
                      \* thread.start() ("send_request")
    started,          \* request cycles started so far; the running one is the last
    \* HttpRequestThread of each cycle
    thread_pc,        \* "unborn", "calling" (in client.request), "stored" (the
                      \* outcome is stored, the flag not yet), "finally", "dead"
    thread_request,   \* self.request of the thread
    thread_success,   \* "None", "True", "False"
    thread_response,  \* Optional[Response]
    thread_error,     \* Optional[(exception, trace)]
    adapter,          \* client.request of the cycle: "idle", "running",
                      \* "returned", "raised"
    \* the closure of send_request
    throbber_start,
    throbber_end,
    \* sublime.set_timeout: callbacks waiting for the UI thread, oldest first
    timers,
    \* observations of the run, read by the properties only
    thread_doc,       \* the document the cycle's request was parsed from
    initial_written,  \* send_request has written the cycle's initial frame
    dispatched,       \* render callbacks the cycle's poller has scheduled
    observed_done,    \* ticks of the cycle that saw the thread finished
    rendered,         \* "none", "success", "error", "raised" (the renderer threw)
    frames,           \* throbber frames the running poller of the cycle has
                      \* drawn, modulo the period
    last_write,       \* which cycle and which write last changed the panel
    last_run,         \* how the last run() ended
    assert_failed     \* an assert of poll has failed

command_vars == <<request, panel_view, panel, ui, started>>
thread_vars == <<thread_pc, thread_request, thread_success, thread_response,
                 thread_error, adapter>>
closure_vars == <<throbber_start, throbber_end>>
observer_vars == <<thread_doc, initial_written, dispatched, observed_done,
                   rendered, frames,
                   last_write, last_run, assert_failed>>
vars == <<command_vars, thread_vars, closure_vars, timers, observer_vars>>

\* one period of the throbber: up from 0 to the last cell and back
Period == 2 * (THROBBER_WIDTH - 1)

Init ==
    /\ request = None
    /\ panel_view = FALSE
    /\ panel = <<>>
    /\ ui = "idle"
    /\ started = 0
    /\ thread_pc = [c \in Cycles |-> "unborn"]
    /\ thread_request = [c \in Cycles |-> None]
    /\ thread_success = [c \in Cycles |-> "None"]
    /\ thread_response = [c \in Cycles |-> None]
    /\ thread_error = [c \in Cycles |-> None]
    /\ adapter = [c \in Cycles |-> "idle"]
    /\ throbber_start = [c \in Cycles |-> 0]
    /\ throbber_end = [c \in Cycles |-> 0]
    /\ timers = <<>>
    /\ thread_doc = [c \in Cycles |-> None]
    /\ initial_written = [c \in Cycles |-> FALSE]
    /\ dispatched = [c \in Cycles |-> 0]
    /\ observed_done = [c \in Cycles |-> 0]
    /\ rendered = [c \in Cycles |-> "none"]
    /\ frames = [c \in Cycles |-> 0]
    /\ last_write = [cycle |-> 0, kind |-> "none"]
    /\ last_run = "none"
    /\ assert_failed = FALSE

-----------------------------------------------------------------------------
(* HttpRequestThread *)

\* Thread.is_alive(): from start() until run has returned
is_alive(c) == thread_pc[c] \in {"calling", "stored", "finally"}

\* get_response: raises RestException, or returns self.response
get_response(c) ==
    IF thread_success[c] = "None" \/ thread_response[c] = None
    THEN [raises |-> TRUE, value |-> None]
    ELSE [raises |-> FALSE, value |-> thread_response[c]]

\* get_error: raises RestException, or returns self.error
get_error(c) ==
    IF thread_success[c] = "None" \/ thread_error[c] = None
    THEN [raises |-> TRUE, value |-> None]
    ELSE [raises |-> FALSE, value |-> thread_error[c]]

\* run, line 39: client.request returns and the response is stored
request_returns(c, resp) ==
    /\ thread_pc[c] = "calling"
    /\ adapter' = [adapter EXCEPT ![c] = "returned"]
    /\ thread_response' = [thread_response EXCEPT ![c] = Some(resp)]
    /\ thread_pc' = [thread_pc EXCEPT ![c] = "stored"]
    /\ UNCHANGED <<thread_request, thread_success, thread_error>>
    /\ UNCHANGED <<command_vars, closure_vars, timers, observer_vars>>

\* Variant of request_raises in which the except clause does not store the error.
request_raises_drops_error(c, exc) ==
    /\ thread_pc[c] = "calling"
    /\ adapter' = [adapter EXCEPT ![c] = "raised"]
    /\ thread_pc' = [thread_pc EXCEPT ![c] = "stored"]
    /\ UNCHANGED <<thread_request, thread_success, thread_response, thread_error>>
    /\ UNCHANGED <<command_vars, closure_vars, timers, observer_vars>>

\* run, lines 41-42: client.request raises an Exception, the handler stores
\* it with the formatted traceback
request_raises(c, exc) ==
    /\ thread_pc[c] = "calling"
    /\ adapter' = [adapter EXCEPT ![c] = "raised"]
    /\ thread_error' = [thread_error EXCEPT ![c] = Some(<<exc, format_exc(exc)>>)]
    /\ thread_pc' = [thread_pc EXCEPT ![c] = "stored"]
    /\ UNCHANGED <<thread_request, thread_success, thread_response>>
    /\ UNCHANGED <<command_vars, closure_vars, timers, observer_vars>>

\* run, line 40 (after the call returned) or line 43 (in the handler)
set_success(c) ==
    /\ thread_pc[c] = "stored"
    /\ thread_success' = [thread_success EXCEPT
                            ![c] = IF adapter[c] = "returned" THEN "True" ELSE "False"]
    /\ thread_pc' = [thread_pc EXCEPT ![c] = "finally"]
    /\ UNCHANGED <<thread_request, thread_response, thread_error, adapter>>
    /\ UNCHANGED <<command_vars, closure_vars, timers, observer_vars>>

\* Variant of thread_exit in which the thread itself writes the error text to the panel.
thread_exit_writes_panel(c) ==
    /\ thread_pc[c] = "finally"
    /\ thread_pc' = [thread_pc EXCEPT ![c] = "dead"]
    /\ IF thread_success[c] = "False"
       THEN /\ panel' = UpdateRestResponsePanel(
                            panel,
                            on_error_output(thread_request[c][1],
                                            thread_error[c][1][1],
                                            thread_error[c][1][2]),
                            None, None)
            /\ last_write' = [cycle |-> c, kind |-> "on_error"]
       ELSE UNCHANGED <<panel, last_write>>
    /\ UNCHANGED <<thread_request, thread_success, thread_response, thread_error,
                   adapter>>
    /\ UNCHANGED <<request, panel_view, ui, started>>
    /\ UNCHANGED <<closure_vars, timers>>
    /\ UNCHANGED <<thread_doc, initial_written, dispatched, observed_done,
                   rendered, frames, last_run, assert_failed>>

\* run, lines 44-46: the finally block, then run returns and the thread ends
thread_exit(c) ==
    /\ thread_pc[c] = "finally"
    /\ thread_pc' = [thread_pc EXCEPT ![c] = "dead"]
    /\ UNCHANGED <<thread_request, thread_success, thread_response, thread_error,
                   adapter>>
    /\ UNCHANGED <<command_vars, closure_vars, timers, observer_vars>>

-----------------------------------------------------------------------------
(* RestRequestCommand *)

\* a callback handed to sublime.set_timeout
Callback(kind, c, position, step, resp, err, delay) ==
    [kind |-> kind, cycle |-> c, position |-> position, step |-> step,
     response |-> resp, error |-> err, delay |-> delay]

\* A timer fires no later than one set earlier with the same or a shorter
\* delay; otherwise the order is open.
Runnable(i) ==
    /\ ui = "idle"
    /\ \A j \in 1..(i - 1) : timers[j].delay > timers[i].delay

Remove(seq, i) == SubSeq(seq, 1, i - 1) \o SubSeq(seq, i + 1, Len(seq))

\* Variant of run_abort that returns only after create_output_panel.
run_abort_after_panel(reason) ==
    /\ last_run' = reason
    /\ panel_view' = TRUE
    /\ panel' = <<>>
    /\ UNCHANGED <<request, ui, started>>
    /\ UNCHANGED <<thread_vars, closure_vars, timers>>
    /\ UNCHANGED <<thread_doc, initial_written, dispatched, observed_done, rendered, frames,
                   last_write, assert_failed>>

\* run, line 63 (no active view) or the exception of parser.parse at line 65
\* leaving run
run_abort(reason) ==
    /\ last_run' = reason
    /\ UNCHANGED <<command_vars, thread_vars, closure_vars, timers>>
    /\ UNCHANGED <<thread_doc, initial_written, dispatched, observed_done, rendered, frames,
                   last_write, assert_failed>>

\* Variant of run_start in which thread.start() is never called.
run_start_without_thread_start(doc, limit) ==
    LET c == started + 1
        req == parse(doc)
    IN /\ started < limit
       /\ request' = Some(req)
       /\ panel_view' = TRUE
       /\ started' = c
       /\ thread_request' = [thread_request EXCEPT ![c] = Some(req)]
       /\ thread_pc' = [thread_pc EXCEPT ![c] = "created"]
       /\ ui' = "send_request"
       /\ thread_doc' = [thread_doc EXCEPT ![c] = Some(doc)]
       /\ last_run' = "sent"
       /\ UNCHANGED <<panel, thread_success, thread_response, thread_error, adapter>>
       /\ UNCHANGED <<closure_vars, timers>>
       /\ UNCHANGED <<initial_written, dispatched, observed_done, rendered, frames,
                      last_write, assert_failed>>

\* Variant of run_start with lines 71-72 moved behind the write of the initial frame: the thread
\* is not yet created when the rest of send_request runs.
run_start_thread_deferred(doc, limit) ==
    LET c == started + 1
        req == parse(doc)
    IN /\ started < limit
       /\ request' = Some(req)
       /\ panel_view' = TRUE
       /\ started' = c
       /\ ui' = "send_request"
       /\ thread_doc' = [thread_doc EXCEPT ![c] = Some(doc)]
       /\ last_run' = "sent"
       /\ UNCHANGED panel
       /\ UNCHANGED <<thread_vars, closure_vars, timers>>
       /\ UNCHANGED <<initial_written, dispatched, observed_done, rendered, frames,
                      last_write, assert_failed>>

\* Variant of run_start that starts a cycle only when no thread is alive and no callback
\* is pending.
run_start_guarded(doc, limit) ==
    LET c == started + 1
        req == parse(doc)
    IN /\ started < limit
       /\ timers = <<>>
       /\ \A d \in Cycles : ~is_alive(d)
       /\ request' = Some(req)
       /\ panel_view' = TRUE
       /\ started' = c
       /\ thread_request' = [thread_request EXCEPT ![c] = Some(req)]
       /\ thread_pc' = [thread_pc EXCEPT ![c] = "calling"]
       /\ adapter' = [adapter EXCEPT ![c] = "running"]
       /\ ui' = "send_request"
       /\ thread_doc' = [thread_doc EXCEPT ![c] = Some(doc)]
       /\ last_run' = "sent"
       /\ UNCHANGED <<panel, thread_success, thread_response, thread_error>>
       /\ UNCHANGED <<closure_vars, timers>>
       /\ UNCHANGED <<initial_written, dispatched, observed_done, rendered, frames,
                      last_write, assert_failed>>

\* run, lines 65-68, and send_request up to thread.start() (lines 71-72)
run_start(doc, limit) ==
    LET c == started + 1
        req == parse(doc)
    IN /\ started < limit
       /\ request' = Some(req)
       /\ panel_view' = TRUE
       /\ started' = c
       /\ thread_request' = [thread_request EXCEPT ![c] = Some(req)]
       /\ thread_pc' = [thread_pc EXCEPT ![c] = "calling"]
       /\ adapter' = [adapter EXCEPT ![c] = "running"]
       /\ ui' = "send_request"
       /\ thread_doc' = [thread_doc EXCEPT ![c] = Some(doc)]
       /\ last_run' = "sent"
       /\ UNCHANGED <<panel, thread_success, thread_response, thread_error>>
       /\ UNCHANGED <<closure_vars, timers>>
       /\ UNCHANGED <<initial_written, dispatched, observed_done, rendered, frames,
                      last_write, assert_failed>>

\* RestRequestCommand.run, on the UI thread; at most `limit` runs get as
\* far as starting a cycle
run(view, limit) ==
    /\ ui = "idle"
    /\ IF view = None THEN run_abort("no_view")
       ELSE IF ParseRaises(view[1]) THEN run_abort("parse_error")
       ELSE run_start(view[1], limit)

\* Variant of send_request without the run_command of line 78: no initial frame is written.
send_request_without_initial_write ==
    LET c == started
        output == initial_output(request[1])
    IN /\ ui = "send_request"
       /\ throbber_end' = [throbber_end EXCEPT ![c] = throbber_end_of(output)]
       /\ throbber_start' = [throbber_start EXCEPT ![c] = throbber_start_of(output)]
       /\ timers' = Append(timers, Callback("poll", c, 0, 1, None, None, 0))
       /\ ui' = "idle"
       /\ UNCHANGED <<request, panel_view, panel, started>>
       /\ UNCHANGED thread_vars
       /\ UNCHANGED <<thread_doc, initial_written, dispatched, observed_done,
                      rendered, frames, last_write, last_run, assert_failed>>

\* Variant of send_request that hands poll to set_timeout twice at line 112.
send_request_schedules_poll_twice ==
    LET c == started
        output == initial_output(request[1])
    IN /\ ui = "send_request"
       /\ panel' = UpdateRestResponsePanel(panel, output, None, None)
       /\ throbber_end' = [throbber_end EXCEPT ![c] = throbber_end_of(output)]
       /\ throbber_start' = [throbber_start EXCEPT ![c] = throbber_start_of(output)]
       /\ timers' = Append(Append(timers, Callback("poll", c, 0, 1, None, None, 0)),
                           Callback("poll", c, 0, 1, None, None, 0))
       /\ ui' = "idle"
       /\ last_write' = [cycle |-> c, kind |-> "initial"]
       /\ initial_written' = [initial_written EXCEPT ![c] = TRUE]
       /\ UNCHANGED <<request, panel_view, started>>
       /\ UNCHANGED thread_vars
       /\ UNCHANGED <<thread_doc, dispatched, observed_done, rendered, frames,
                      last_run, assert_failed>>

\* send_request after thread.start(): the initial frame, the closure and
\* the first tick (lines 74-81 and 112)
send_request ==
    LET c == started
        output == initial_output(request[1])
    IN /\ ui = "send_request"
       /\ panel' = UpdateRestResponsePanel(panel, output, None, None)
       /\ throbber_end' = [throbber_end EXCEPT ![c] = throbber_end_of(output)]
       /\ throbber_start' = [throbber_start EXCEPT ![c] = throbber_start_of(output)]
       /\ timers' = Append(timers, Callback("poll", c, 0, 1, None, None, 0))
       /\ ui' = "idle"
       /\ last_write' = [cycle |-> c, kind |-> "initial"]
       /\ initial_written' = [initial_written EXCEPT ![c] = TRUE]
       /\ UNCHANGED <<request, panel_view, started>>
       /\ UNCHANGED thread_vars
       /\ UNCHANGED <<thread_doc, dispatched, observed_done, rendered, frames,
                      last_run, assert_failed>>

\* Variant of poll_done without the return of line 100: the poller re-arms after dispatching.
poll_done_without_return(cb, rest) ==
    LET c == cb.cycle
        render == IF thread_success[c] = "True"
                  THEN Callback("on_success", c, 0, 0, thread_response[c], None, 0)
                  ELSE Callback("on_error", c, 0, 0, None, thread_error[c], 0)
    IN /\ observed_done' = [observed_done EXCEPT ![c] = @ + 1]
       /\ dispatched' = [dispatched EXCEPT ![c] = @ + 1]
       /\ panel' = UpdateRestResponsePanel(panel, throbber(cb.position),
                                           Some(throbber_start[c]),
                                           Some(throbber_end[c]))
       /\ timers' = Append(Append(rest, render),
                           Callback("poll", c,
                                    NextPosition(cb.position, cb.step),
                                    NextStep(cb.position, cb.step),
                                    None, None, THROBBER_REFRESH_RATE))
       /\ last_write' = [cycle |-> c, kind |-> "throbber"]
       /\ UNCHANGED <<request, panel_view, ui, started>>
       /\ UNCHANGED <<thread_vars, closure_vars>>
       /\ UNCHANGED <<thread_doc, initial_written, rendered, frames, last_run, assert_failed>>

\* poll, lines 91-100: the thread has finished
poll_done(cb, rest) ==
    LET c == cb.cycle
        ok == IF thread_success[c] = "True"
              THEN thread_response[c] # None
              ELSE thread_error[c] # None
    IN /\ observed_done' = [observed_done EXCEPT ![c] = @ + 1]
       /\ assert_failed' = (assert_failed \/ ~ok)
       /\ dispatched' = [dispatched EXCEPT ![c] = IF ok THEN @ + 1 ELSE @]
       /\ timers' = IF ~ok THEN rest
                    ELSE IF thread_success[c] = "True"
                    THEN Append(rest, Callback("on_success", c, 0, 0,
                                               thread_response[c], None, 0))
                    ELSE Append(rest, Callback("on_error", c, 0, 0,
                                               None, thread_error[c], 0))
       /\ frames' = [frames EXCEPT ![c] = 0]
       /\ UNCHANGED <<command_vars, thread_vars, closure_vars>>
       /\ UNCHANGED <<thread_doc, initial_written, rendered, last_write, last_run>>

\* Variant of poll_tick without the set_timeout of line 110: the frame is drawn, no tick follows.
poll_tick_without_reschedule(cb, rest) ==
    LET c == cb.cycle
    IN /\ panel' = UpdateRestResponsePanel(panel, throbber(cb.position),
                                           Some(throbber_start[c]),
                                           Some(throbber_end[c]))
       /\ timers' = rest
       /\ frames' = [frames EXCEPT ![c] = (@ + 1) % Period]
       /\ last_write' = [cycle |-> c, kind |-> "throbber"]
       /\ UNCHANGED <<request, panel_view, ui, started>>
       /\ UNCHANGED <<thread_vars, closure_vars>>
       /\ UNCHANGED <<thread_doc, initial_written, dispatched, observed_done,
                      rendered, last_run, assert_failed>>

\* poll, lines 102-110: one throbber frame, then the next tick
poll_tick(cb, rest) ==
    LET c == cb.cycle
    IN /\ panel' = UpdateRestResponsePanel(panel, throbber(cb.position),
                                           Some(throbber_start[c]),
                                           Some(throbber_end[c]))
       /\ timers' = Append(rest, Callback("poll", c,
                                          NextPosition(cb.position, cb.step),
                                          NextStep(cb.position, cb.step),
                                          None, None, THROBBER_REFRESH_RATE))
       /\ frames' = [frames EXCEPT ![c] = (@ + 1) % Period]
       /\ last_write' = [cycle |-> c, kind |-> "throbber"]
       /\ UNCHANGED <<request, panel_view, ui, started>>
       /\ UNCHANGED <<thread_vars, closure_vars>>
       /\ UNCHANGED <<thread_doc, initial_written, dispatched, observed_done, rendered, last_run,
                      assert_failed>>

\* one tick of the poller of send_request
poll(i) ==
    /\ i \in 1..Len(timers)
    /\ Runnable(i)
    /\ timers[i].kind = "poll"
    /\ IF ~is_alive(timers[i].cycle)
       THEN poll_done(timers[i], Remove(timers, i))
       ELSE poll_tick(timers[i], Remove(timers, i))

\* on_success, run from the callback poll has scheduled
on_success(i) ==
    /\ i \in 1..Len(timers)
    /\ Runnable(i)
    /\ timers[i].kind = "on_success"
    /\ LET c == timers[i].cycle
           resp == timers[i].response[1]
       IN /\ timers' = Remove(timers, i)
          /\ IF HTTPStatusRaises(resp.status)
             THEN /\ rendered' = [rendered EXCEPT ![c] = "raised"]
                  /\ UNCHANGED <<panel, last_write>>
             ELSE /\ panel' = UpdateRestResponsePanel(
                                  panel, on_success_output(request[1], resp),
                                  None, None)
                  /\ rendered' = [rendered EXCEPT ![c] = "success"]
                  /\ last_write' = [cycle |-> c, kind |-> "on_success"]
    /\ UNCHANGED <<request, panel_view, ui, started>>
    /\ UNCHANGED <<thread_vars, closure_vars>>
    /\ UNCHANGED <<thread_doc, initial_written, dispatched, observed_done, frames, last_run,
                   assert_failed>>

\* on_error, run from the callback poll has scheduled
on_error(i) ==
    /\ i \in 1..Len(timers)
    /\ Runnable(i)
    /\ timers[i].kind = "on_error"
    /\ LET c == timers[i].cycle
           exception == timers[i].error[1][1]
           trace == timers[i].error[1][2]
       IN /\ timers' = Remove(timers, i)
          /\ panel' = UpdateRestResponsePanel(
                          panel, on_error_output(request[1], exception, trace),
                          None, None)
          /\ rendered' = [rendered EXCEPT ![c] = "error"]
          /\ last_write' = [cycle |-> c, kind |-> "on_error"]
    /\ UNCHANGED <<request, panel_view, ui, started>>
    /\ UNCHANGED <<thread_vars, closure_vars>>
    /\ UNCHANGED <<thread_doc, initial_written, dispatched, observed_done, frames, last_run,
                   assert_failed>>

NextUpTo(limit) ==
    \/ \E view \in ActiveViews : run(view, limit)
    \/ send_request
    \/ \E c \in Cycles, resp \in Responses : request_returns(c, resp)
    \/ \E c \in Cycles, exc \in Exceptions : request_raises(c, exc)
    \/ \E c \in Cycles : set_success(c)
    \/ \E c \in Cycles : thread_exit(c)
    \/ \E i \in 1..Len(timers) : poll(i)
    \/ \E i \in 1..Len(timers) : on_success(i)
    \/ \E i \in 1..Len(timers) : on_error(i)

Next == NextUpTo(MaxCycles)
NextOverlap == NextUpTo(OverlapCycles)

\* one window, its command started at most MaxCycles times
Spec == Init /\ [][Next]_vars

\* the same with one more run, which may come while a cycle is in flight
SpecOverlap == Init /\ [][NextOverlap]_vars

\* The UI thread runs every callback handed to sublime.set_timeout once it
\* is due, and a run that has started its thread goes on to the end of
\* send_request. Nothing makes client.request return: the thread's steps
\* carry no fairness.
UIFairness ==
    /\ WF_vars(send_request)
    /\ WF_vars(\E i \in 1..Len(timers) : poll(i))
    /\ WF_vars(\E i \in 1..Len(timers) : on_success(i))
    /\ WF_vars(\E i \in 1..Len(timers) : on_error(i))

FairSpec == Spec /\ UIFairness

-----------------------------------------------------------------------------
(* What the properties read *)

Started(c) == thread_pc[c] # "unborn"
Resolved(c) == adapter[c] \in {"returned", "raised"}
CallbacksOf(c) == {i \in 1..Len(timers) : timers[i].cycle = c}
PollsOf(c) == {i \in CallbacksOf(c) : timers[i].kind = "poll"}
RendersOf(c) == {i \in CallbacksOf(c) : timers[i].kind \in {"on_success", "on_error"}}

\* The cycle has nothing left to run: its thread has ended and neither
\* run nor a callback of the cycle is pending.
Quiescent(c) ==
    /\ thread_pc[c] = "dead"
    /\ CallbacksOf(c) = {}
    /\ ~(ui = "send_request" /\ started = c)

-----------------------------------------------------------------------------
(* C1 *)

\* the standard reason phrases of the status codes the responses carry
ReasonPhrase(status) ==
    IF status = 200 THEN <<"O", "K">>
    ELSE <<"N", "o", "t", " ", "F", "o", "u", "n", "d">>

RECURSIVE HeaderLines(_)
HeaderLines(hs) ==
    IF hs = <<>> THEN <<>>
    ELSE hs[1][1] \o <<":", " ">> \o hs[1][2]
         \o (IF Len(hs) = 1 THEN <<>> ELSE <<"\n">> \o HeaderLines(Tail(hs)))

SuccessTextOf(req, resp) ==
    req.method \o <<" ">> \o req.url \o <<" ">> \o Str(resp.status) \o <<" ">>
        \o ReasonPhrase(resp.status)
    \o <<"\n", "\n">> \o HeaderLines(resp.headers)
    \o <<"\n", "\n">> \o resp.data

\* C1: whenever on_success has written the result of a cycle, the panel
\* holds exactly the status line "{method} {url} {status} {phrase}" of that
\* cycle's request and response, a blank line, the response headers one per
\* line in order, a blank line, and the body; GET https://example.test/get
\* answered with 200 starts with "GET https://example.test/get 200 OK".
C1_SuccessText ==
    \A c \in Cycles :
        last_write = [cycle |-> c, kind |-> "on_success"] =>
            /\ panel = SuccessTextOf(thread_request[c][1], thread_response[c][1])
            /\ (thread_doc[c] = Some(DocExplicitGet) /\ thread_response[c] = Some(R200))
                   => StartsWith(panel, <<"G", "E", "T", " ", "h", "t", "t", "p", "s", ":", "/", "/", "e", "x", "a", "m", "p", "l", "e", ".", "t", "e", "s", "t", "/", "g", "e", "t", " ", "2", "0", "0", " ", "O", "K">>)

-----------------------------------------------------------------------------
(* C2 *)

ERROR_HEADER == <<"R", "E", "S", "T", " ", "C", "l", "i", "e", "n", "t", ":", " ", "E", "r", "r", "o", "r", " ", "o", "n", " ", "r", "e", "q", "u", "e", "s", "t", " ", "t", "o", " ">>

\* C2: whenever on_error has written the result of a cycle, the panel holds
\* "REST Client: Error on request to {method} {url}" with the method and
\* URL of that cycle's request, a blank line, the repr of the error, a
\* blank line, and the non-empty trace.
C2_ErrorText ==
    \A c \in Cycles :
        last_write = [cycle |-> c, kind |-> "on_error"] =>
            LET req == thread_request[c][1]
                exc == thread_error[c][1][1]
                trace == thread_error[c][1][2]
            IN /\ trace # <<>>
               /\ panel = ERROR_HEADER \o req.method \o <<" ">> \o req.url
                          \o <<"\n", "\n">> \o repr(exc)
                          \o <<"\n", "\n">> \o trace

-----------------------------------------------------------------------------
(* C3 *)

\* C3: when the request of a cycle was built from a document holding only
\* a URL and on_error has written its result, the panel starts with
\* "REST Client: Error on request to " directly followed by that URL.
C3_ErrorTextOfUrlOnlyDocument ==
    \A c \in Cycles :
        (/\ last_write = [cycle |-> c, kind |-> "on_error"]
         /\ thread_doc[c] # None
         /\ thread_doc[c][1].method = None)
        => StartsWith(panel, ERROR_HEADER \o thread_doc[c][1].url)

-----------------------------------------------------------------------------
(* C4 *)

\* C4: in each cycle a tick sees the thread finished at most once, that
\* tick schedules exactly one render callback, which runs at most once, and
\* no tick of the cycle is pending afterwards.
C4_DispatchedExactlyOnce ==
    \A c \in Cycles :
        /\ observed_done[c] <= 1
        /\ dispatched[c] = observed_done[c]
        /\ Cardinality(RendersOf(c)) + (IF rendered[c] = "none" THEN 0 ELSE 1)
               = dispatched[c]
        /\ observed_done[c] = 1 => PollsOf(c) = {}

C4_Witness ==
    \E c \in Cycles : dispatched[c] = 1 /\ rendered[c] = "success"

-----------------------------------------------------------------------------
(* C5 *)

\* C5 (as the final result of a cycle): once the adapter call of a cycle
\* has resolved and the cycle has nothing left to run, its terminal text
\* (success or error) has been written to the panel.
C5_ResolvedCycleShowsResult ==
    \A c \in Cycles :
        (Resolved(c) /\ Quiescent(c)) => rendered[c] \in {"success", "error"}

-----------------------------------------------------------------------------
(* C6 *)

\* C6: once the worker thread has finished, either success is True, the
\* response is set and the error is None, or success is False, the error
\* is set and the response is None; no assert of poll fails.
C6_ExactlyOneOutcome ==
    /\ ~assert_failed
    /\ \A c \in Cycles :
           thread_pc[c] = "dead" =>
               \/ /\ thread_success[c] = "True"
                  /\ thread_response[c] # None
                  /\ thread_error[c] = None
               \/ /\ thread_success[c] = "False"
                  /\ thread_error[c] # None
                  /\ thread_response[c] = None

C6_Witness ==
    \E c \in Cycles :
        /\ thread_pc[c] = "dead"
        /\ thread_success[c] = "False"
        /\ dispatched[c] = 1

-----------------------------------------------------------------------------
(* C7 *)

\* C7: while the completion check of the poller does not report the worker
\* finished, get_response and get_error both raise RestException.
C7_AccessorsRaiseBeforeCompletion ==
    \A c \in Cycles :
        (Started(c) /\ is_alive(c)) =>
            get_response(c).raises /\ get_error(c).raises

-----------------------------------------------------------------------------
(* C8 *)

\* C8: the completion check reports complete exactly when the adapter call
\* has returned or raised: never before, and never not-complete after.
C8_CompleteIffResolved ==
    \A c \in Cycles :
        Started(c) => (~is_alive(c) <=> Resolved(c))

\* C8, amended: the completion check never reports complete before the
\* adapter call has returned or raised and the outcome flag is stored; it
\* reports complete once run has returned, and from then on at every later
\* moment.
C8_CompleteOnlyAfterResolved ==
    /\ [](\A c \in Cycles :
            Started(c) =>
                /\ ~is_alive(c) => (Resolved(c) /\ thread_success[c] # "None")
                /\ thread_pc[c] = "dead" => ~is_alive(c))
    /\ [][\A c \in Cycles :
            (Started(c) /\ ~is_alive(c)) => ~is_alive(c)']_vars

C8_Witness ==
    \E c \in Cycles :
        /\ ~is_alive(c)
        /\ adapter[c] = "raised"
        /\ observed_done[c] = 1

-----------------------------------------------------------------------------
(* C9 *)

\* the positions the claim lists for width 6, one period
ClaimedPositions == <<0, 1, 2, 3, 4, 5, 4, 3, 2, 1>>

\* C9: the position of every tick lies in [0, THROBBER_WIDTH-1] and is the
\* next one of 0,1,2,3,4,5,4,3,2,1,0,1,...; it moves by one per tick, and
\* the direction is +1 from position 0 and -1 from THROBBER_WIDTH-1.
C9_ThrobberZigzag ==
    \A i \in 1..Len(timers) :
        timers[i].kind = "poll" =>
            LET cb == timers[i]
                n == frames[cb.cycle]
            IN /\ cb.position \in 0..(THROBBER_WIDTH - 1)
               /\ cb.step \in {-1, 1}
               /\ cb.position = ClaimedPositions[n + 1]
               /\ cb.position + cb.step = ClaimedPositions[((n + 1) % Period) + 1]
               /\ cb.position = 0 => cb.step = 1
               /\ cb.position = THROBBER_WIDTH - 1 => cb.step = -1

C9_Witness ==
    \E i \in 1..Len(timers) :
        /\ timers[i].kind = "poll"
        /\ timers[i].position = 1
        /\ timers[i].step = -1
        /\ frames[timers[i].cycle] = Period - 1

-----------------------------------------------------------------------------
(* C10 *)

\* C10: a run that ends because there is no active view or because the
\* parser raises creates and starts no thread, calls no adapter, schedules
\* no tick and writes nothing to the panel.
C10_AbortedRunStartsNothing ==
    [][(last_run' # last_run /\ last_run' \in {"no_view", "parse_error"})
          => UNCHANGED <<command_vars, thread_vars, closure_vars, timers>>]_vars

C10_Witness ==
    /\ last_run = "parse_error"
    /\ started = 1
    /\ timers # <<>>

-----------------------------------------------------------------------------
(* C11 *)

\* the pending ticks of a cycle, as values
PendingPolls(c) == {timers[i] : i \in PollsOf(c)}

\* this step runs a tick of cycle c
TickOf(c) == PendingPolls(c) # {} /\ PendingPolls(c)' # PendingPolls(c)

\* C11: while client.request of a cycle has neither returned nor raised,
\* the thread is alive, no tick has seen it finished, nothing has been
\* dispatched or rendered for the cycle; every tick of the cycle draws a
\* throbber frame and leaves exactly one next tick scheduled; and if the
\* call never resolves, the poller ticks again and again forever.
C11_HungAdapterAnimatesForever ==
    /\ [](\A c \in Cycles :
            adapter[c] = "running" =>
                /\ is_alive(c)
                /\ observed_done[c] = 0
                /\ dispatched[c] = 0
                /\ RendersOf(c) = {}
                /\ rendered[c] = "none"
                /\ last_write # [cycle |-> c, kind |-> "on_success"]
                /\ last_write # [cycle |-> c, kind |-> "on_error"])
    /\ [][\A c \in Cycles :
            (adapter[c] = "running" /\ TickOf(c)) =>
                /\ adapter'[c] = "running"
                /\ last_write' = [cycle |-> c, kind |-> "throbber"]
                /\ frames'[c] = (frames[c] + 1) % Period
                /\ Cardinality(PendingPolls(c)') = 1
                /\ \A cb \in PendingPolls(c)' : cb.delay = THROBBER_REFRESH_RATE]_vars
    /\ \A c \in Cycles :
           <>[](adapter[c] = "running") => []<><<TickOf(c)>>_vars

C11_Witness ==
    \E c \in Cycles :
        /\ adapter[c] = "running"
        /\ frames[c] = 3
        /\ last_write = [cycle |-> c, kind |-> "throbber"]
        /\ PollsOf(c) # {}

-----------------------------------------------------------------------------
(* C12 *)

\* this step writes the initial frame, a throbber frame, the terminal
\* result of cycle c
InitialWriteOf(c) == ~initial_written[c] /\ initial_written'[c]
ThrobberWriteOf(c) ==
    /\ TickOf(c)
    /\ observed_done'[c] = observed_done[c]
    /\ last_write' = [cycle |-> c, kind |-> "throbber"]
TerminalWriteOf(c) ==
    /\ Cardinality(RendersOf(c)') < Cardinality(RendersOf(c))
    /\ last_write'.cycle = c
    /\ last_write'.kind \in {"on_success", "on_error"}

TerminalWritten(c) == rendered[c] \in {"success", "error"}

\* C12: in each cycle the initial frame is written before any tick of the
\* cycle is scheduled; every throbber frame is written after the initial
\* frame, one tick after the other, and before the terminal result is
\* dispatched; the terminal result is written after the last tick; and once
\* it is written the cycle writes nothing more.
C12_WritesOfACycleOrdered ==
    [][\A c \in Cycles :
         /\ InitialWriteOf(c) =>
                /\ PollsOf(c) = {} /\ observed_done[c] = 0
                /\ RendersOf(c) = {} /\ rendered[c] = "none"
         /\ ThrobberWriteOf(c) =>
                /\ initial_written[c]
                /\ frames'[c] = (frames[c] + 1) % Period
                /\ dispatched[c] = 0 /\ RendersOf(c) = {} /\ rendered[c] = "none"
         /\ TerminalWriteOf(c) =>
                /\ initial_written[c]
                /\ PollsOf(c) = {} /\ PollsOf(c)' = {}
                /\ rendered[c] = "none"
         /\ TerminalWritten(c) =>
                /\ ~InitialWriteOf(c) /\ ~ThrobberWriteOf(c) /\ ~TerminalWriteOf(c)
                /\ PollsOf(c)' = {} /\ RendersOf(c)' = {}]_vars

C12_Witness ==
    \E c \in Cycles :
        /\ initial_written[c]
        /\ last_write = [cycle |-> c, kind |-> "on_error"]
        /\ CallbacksOf(c) = {}

-----------------------------------------------------------------------------
(* C13 *)

\* C13: at every moment at most one tick of a cycle is waiting for the UI
\* thread, and none once a tick has seen the thread finished; a tick runs
\* on the UI thread from start to end while no other handler is running,
\* and leaves at most one tick of its cycle scheduled.
C13_AtMostOneTickPending ==
    /\ [](\A c \in Cycles :
            /\ Cardinality(PollsOf(c)) <= 1
            /\ PollsOf(c) # {} => (initial_written[c] /\ observed_done[c] = 0))
    /\ [][\A c \in Cycles :
            TickOf(c) =>
                /\ ui = "idle" /\ ui' = "idle"
                /\ Cardinality(PollsOf(c)') <= 1
                /\ \A d \in Cycles \ {c} : PendingPolls(d)' = PendingPolls(d)]_vars

C13_Witness ==
    \E c \in Cycles :
        /\ Cardinality(PollsOf(c)) = 1
        /\ frames[c] = 2
        /\ thread_pc[c] = "finally"

-----------------------------------------------------------------------------
(* C14 *)

\* this step is a step of some HttpRequestThread.run
ThreadStep == \E c \in Cycles : thread_pc[c] # "unborn" /\ thread_pc'[c] # thread_pc[c]

\* this step writes to the panel or renders a result
SurfaceStep ==
    \/ panel' # panel
    \/ last_write' # last_write
    \/ rendered' # rendered
    \/ \E c \in Cycles : InitialWriteOf(c) \/ ThrobberWriteOf(c) \/ TerminalWriteOf(c)

\* C14: no step of a worker thread writes to the panel or renders; every
\* write is made by a handler of the UI thread that runs to its end (the
\* rest of send_request, a tick, on_success, on_error); the render
\* callbacks are queued by a tick and run later from the UI thread's queue.
C14_OnlyUIThreadWritesPanel ==
    [][/\ ThreadStep => ~SurfaceStep /\ timers' = timers
       /\ SurfaceStep =>
              /\ UNCHANGED thread_vars
              /\ ui' = "idle"
              /\ ui = "idle" \/ InitialWriteOf(started)
       /\ \A c \in Cycles :
              /\ Cardinality(RendersOf(c)') > Cardinality(RendersOf(c)) =>
                     TickOf(c) /\ UNCHANGED thread_vars /\ panel' = panel
              /\ TerminalWriteOf(c) =>
                     \E i \in RendersOf(c) : Runnable(i) /\ timers' = Remove(timers, i)]_vars

C14_Witness ==
    \E c \in Cycles :
        /\ thread_pc[c] = "dead"
        /\ last_write = [cycle |-> c, kind |-> "on_success"]
        /\ rendered[c] = "success"

-----------------------------------------------------------------------------
(* C15 *)

\* the frame "{method} {url}", a blank line, "Waiting for response [      ]"
WaitingFrame(req) ==
    req.method \o <<" ">> \o req.url \o <<"\n", "\n">>
    \o <<"W", "a", "i", "t", "i", "n", "g", " ", "f", "o", "r", " ", "r", "e", "s", "p", "o", "n", "s", "e", " ", "[", " ", " ", " ", " ", " ", " ", "]">>

\* the indices (from 1) of the characters between the brackets
SpanOf(text) == (Len(text) - THROBBER_WIDTH)..(Len(text) - 1)

\* text is the frame of req, whatever stands between the brackets
IsFrameOf(text, req) ==
    /\ Len(text) = Len(WaitingFrame(req))
    /\ \A k \in (1..Len(text)) \ SpanOf(text) : text[k] = WaitingFrame(req)[k]

\* THROBBER_WIDTH characters, one '=' at `position` (from 0), blanks elsewhere
IndicatorAt(position) ==
    [k \in 1..THROBBER_WIDTH |-> IF k = position + 1 THEN "=" ELSE " "]

Indicator(text) == SubSeq(text, Len(text) - THROBBER_WIDTH, Len(text) - 1)

\* C15: a throbber frame written onto the frame of its cycle's request
\* leaves the length of the panel and every character outside the span
\* between the brackets unchanged and puts THROBBER_WIDTH characters
\* there, one '=' at the position of the tick; and while the command has
\* run a single cycle and its result is not yet written, the panel is that
\* frame with a blank or one-'=' indicator.
C15_ThrobberWriteKeepsFrame ==
    /\ [][\A c \in Cycles :
            (ThrobberWriteOf(c) /\ IsFrameOf(panel, thread_request[c][1])) =>
                /\ Len(panel') = Len(panel)
                /\ \A k \in (1..Len(panel)) \ SpanOf(panel) : panel'[k] = panel[k]
                /\ panel'[Len(panel') - THROBBER_WIDTH - 1] = "["
                /\ panel'[Len(panel')] = "]"
                /\ \A cb \in PendingPolls(c) :
                       /\ Indicator(panel') = IndicatorAt(cb.position)
                       /\ Len(throbber(cb.position)) = THROBBER_WIDTH]_vars
    /\ []((started = 1 /\ initial_written[1] /\ ~TerminalWritten(1)) =>
            /\ IsFrameOf(panel, thread_request[1][1])
            /\ \/ Indicator(panel) = Spaces(THROBBER_WIDTH)
               \/ \E p \in 0..(THROBBER_WIDTH - 1) : Indicator(panel) = IndicatorAt(p))

C15_Witness ==
    /\ started = 1
    /\ last_write = [cycle |-> 1, kind |-> "throbber"]
    /\ IsFrameOf(panel, thread_request[1][1])
    /\ Indicator(panel) = IndicatorAt(THROBBER_WIDTH - 1)

-----------------------------------------------------------------------------
(* C16 *)

\* the error text for a request, an exception and its trace
ErrorTextOf(req, exc, trace) ==
    ERROR_HEADER \o req.method \o <<" ">> \o req.url
    \o <<"\n", "\n">> \o repr(exc)
    \o <<"\n", "\n">> \o trace

\* C16: right after on_success or on_error has written, the panel holds
\* exactly the text the renderer has formatted (from self.request as it is
\* then and the outcome of the cycle) and nothing of what it held before.
C16_TerminalWriteReplacesAll ==
    [][\A c \in Cycles :
         TerminalWriteOf(c) =>
             /\ last_write'.kind = "on_success" =>
                    panel' = SuccessTextOf(request[1], thread_response[c][1])
             /\ last_write'.kind = "on_error" =>
                    panel' = ErrorTextOf(request[1], thread_error[c][1][1],
                                         thread_error[c][1][2])]_vars

C16_Witness ==
    \E c \in Cycles :
        /\ TerminalWritten(c)
        /\ frames[c] = 0
        /\ panel = SuccessTextOf(thread_request[c][1], R200)

-----------------------------------------------------------------------------
(* C17 *)

\* C17: the thread of a cycle is started only after the initial frame of
\* the cycle has been written, and a tick of the cycle is scheduled only
\* after the thread has been started.
C17_InitialFrameBeforeThreadStart ==
    \A c \in Cycles :
        /\ Started(c) => initial_written[c]
        /\ PollsOf(c) # {} => Started(c)

\* C17, amended: the thread of a cycle is started before the initial frame
\* of the cycle is written, the frame is written before the first tick of
\* the cycle is scheduled, and so the thread is started before any tick is.
C17_ThreadStartBeforeInitialFrame ==
    /\ [](\A c \in Cycles :
            /\ initial_written[c] => Started(c)
            /\ (PollsOf(c) # {} \/ observed_done[c] > 0) =>
                   (initial_written[c] /\ Started(c)))
    /\ [][\A c \in Cycles :
            /\ (~Started(c) /\ Started(c)') => (~initial_written[c] /\ ~initial_written'[c])
            /\ InitialWriteOf(c) => (Started(c) /\ PollsOf(c) = {} /\ PollsOf(c)' # {})]_vars

C17_Witness ==
    \E c \in Cycles :
        /\ thread_pc[c] = "stored"
        /\ ~initial_written[c]
        /\ PollsOf(c) = {}

-----------------------------------------------------------------------------
(* C18 *)

\* the outcome of cycle c is stored and a renderer can format it
Renderable(c) ==
    /\ request # None
    /\ \/ thread_success[c] = "False" /\ thread_error[c] # None
       \/ /\ thread_success[c] = "True" /\ thread_response[c] # None
          /\ ~HTTPStatusRaises(thread_response[c][1].status)

\* the text on_success or on_error formats now for the outcome of cycle c
RenderingOf(c) ==
    IF thread_success[c] = "True"
    THEN on_success_output(request[1], thread_response[c][1])
    ELSE on_error_output(request[1], thread_error[c][1][1], thread_error[c][1][2])

\* C18: the text a renderer formats for the stored outcome of a cycle is
\* the same before and after every step of the program, a run of the
\* command included: rendering the outcome twice gives the same text.
C18_RenderingIdempotent ==
    [][\A c \in Cycles :
         (Renderable(c) /\ Renderable(c)') => RenderingOf(c)' = RenderingOf(c)]_vars

-----------------------------------------------------------------------------
(* C19 *)

\* cycle c has been started and has something left to run
InFlight(c) == Started(c) /\ ~Quiescent(c)

\* C19: whenever the UI thread is idle the command accepts a run, also
\* while an earlier cycle is in flight; such a run leaves the thread, the
\* closure and the pending callbacks of the earlier cycle as they are, so
\* the earlier cycle goes on writing to the same panel.
C19_NothingGuardsOverlap ==
    /\ [](\A doc \in {DocExplicitGet, DocUrlOnly} :
            (ui = "idle" /\ started < OverlapCycles) =>
                ENABLED run_start(doc, OverlapCycles))
    /\ [][(started' = started + 1 /\ \E d \in 1..started : InFlight(d)) =>
             /\ timers' = timers
             /\ panel' = panel
             /\ UNCHANGED closure_vars
             /\ \A d \in 1..started :
                    /\ thread_pc'[d] = thread_pc[d]
                    /\ InFlight(d)' = InFlight(d)]_vars

\* a throbber frame of the first cycle has landed after the terminal
\* result of the second
C19_Witness ==
    /\ TerminalWritten(2)
    /\ last_write = [cycle |-> 1, kind |-> "throbber"]
    /\ thread_doc[1] # thread_doc[2]

-----------------------------------------------------------------------------
(* C20 *)

\* "{method} {url}" of the request the thread of cycle c was given
NameOfRequest(c) ==
    thread_request[c][1].method \o <<" ">> \o thread_request[c][1].url

\* C20: whenever the terminal text of a cycle is the last thing written,
\* its status line, or its error header line, names the method and URL of
\* the request whose adapter call produced the outcome.
C20_TerminalTextNamesItsRequest ==
    \A c \in Cycles :
        /\ last_write = [cycle |-> c, kind |-> "on_success"] =>
               StartsWith(panel, NameOfRequest(c) \o <<" ">>
                                    \o Str(thread_response[c][1].status) \o <<" ">>)
        /\ last_write = [cycle |-> c, kind |-> "on_error"] =>
               StartsWith(panel, ERROR_HEADER \o NameOfRequest(c) \o <<"\n">>)

=============================================================================
